---------------------------- MODULE Spec2Model ----------------------------
(***************************************************************************)
(* Model of src/user_repository.py: the User entity, the UserRepository    *)
(* interface and its two backends, InMemoryUserRepository (a Python list   *)
(* of live object references) and SQLiteUserRepository (one table, users,  *)
(* with id INTEGER PRIMARY KEY, behind one connection).                    *)
(*                                                                         *)
(* Python objects are modelled by reference: heap maps the references of   *)
(* the live User objects to their fields, lists maps the references of the *)
(* live list objects to their elements.  The caller is part of the model:  *)
(* it constructs User objects, calls the four repository methods, assigns  *)
(* to the attributes of objects it holds and mutates lists it was handed.  *)
(***************************************************************************)
EXTENDS Integers, Sequences, FiniteSets, TLC

\* Bounds of the model.
MaxAdds == 3
MaxMutAdds == 2

UserIds == {1, 2}
Names == {"Alice", "Bob"}
Emails == {"alice@example.com", "bob@example.com"}
\* The attributes the caller assigns to; user_id is the identity and stays.
Fields == {"name", "email"}
\* The name and email the caller constructs a User with
People == {<<"Alice", "alice@example.com">>, <<"Bob", "bob@example.com">>}

\* References of User objects: those the caller constructs, and those a
\* SQLite read materialises (at most one per row of the table).
CallerRefs == 1..MaxAdds
FreshRefs == (MaxAdds + 1)..(MaxAdds + Cardinality(UserIds))
Refs == CallerRefs \cup FreshRefs
\* References of list objects: self._users, one returned list per backend,
\* and the list a comprehension is building.
ListRefs == 1..4

VARIABLES
    backend,      \* which repository the program runs: "memory", "sqlite", "both"
    heap,         \* reference -> fields of the live User objects
    lists,        \* reference -> elements of the live list objects
    users,        \* InMemoryUserRepository._users: a list reference
    table,        \* the committed rows of table users: <<id, name, email>>
    ret,          \* per backend, the value the last repository call returned
    lastOp,       \* the last operation: its name, its argument (an id, or the
                  \* reference of the object added), what it raised, and how
                  \* many stored records had the id concerned when it was called
    prevOp,       \* history: the operation before a get_user_by_id, while it is the last
    addedMem,     \* history: the in-memory add_user calls not undone by a delete_user
    addedSql,     \* history: the SQLite add_user calls not undone by a delete_user
    clock,        \* history: number of successful add_user calls
    everDeleted   \* history: whether delete_user was ever called

vars == <<backend, heap, lists, users, table, ret, lastOp, prevOp,
          addedMem, addedSql, clock, everDeleted>>

UsesMem == backend \in {"memory", "both"}
UsesSql == backend \in {"sqlite", "both"}

---------------------------------------------------------------------------
\* Values

\* User.__init__
User(user_id, name, email) ==
    [user_id |-> user_id, name |-> name, email |-> email]

\* A returned value: None, a User reference, or a list reference.
RetNone == [kind |-> "none", ref |-> 0]
RetUser(r) == [kind |-> "user", ref |-> r]
RetList(l) == [kind |-> "list", ref |-> l]

Op(op, arg, raised, hit) ==
    [op |-> op, arg |-> arg, raised |-> raised, hit |-> hit]

NoOp == Op("none", 0, "none", 0)

Range(s) == {s[i] : i \in DOMAIN s}

Min(S) == CHOOSE x \in S : \A y \in S : x <= y

\* Object allocation: a reference no live object has.
AllocRef(h, pool) == Min(pool \ DOMAIN h)
AllocList(ls) == Min(ListRefs \ DOMAIN ls)

\* The objects and lists still referenced once a call has returned rt: the
\* caller's own objects, the repository's list, and what rt reaches.
RetLists(rt) == {rt[b].ref : b \in {c \in DOMAIN rt : rt[c].kind = "list"}}
RetObjs(ls, rt) ==
    {rt[b].ref : b \in {c \in DOMAIN rt : rt[c].kind = "user"}}
    \cup UNION {Range(ls[l]) : l \in RetLists(rt)}
LiveLists(u, rt) == {u} \cup RetLists(rt)
LiveObjs(ls, u, rt) == CallerRefs \cup Range(ls[u]) \cup RetObjs(ls, rt)
Restrict(f, S) == [x \in (DOMAIN f \cap S) |-> f[x]]

---------------------------------------------------------------------------
\* InMemoryUserRepository

\* Faulty variants of add_user: self._users = [user], and self._users.insert(0, user)
MemAddUser_Overwrite(l, r) == <<r>>
MemAddUser_Prepend(l, r) == <<r>> \o l

\* add_user: self._users.append(user)
MemAddUser(l, r) == Append(l, r)

\* Faulty variant of get_user_by_id: the list scanned from its end
RECURSIVE MemGetUserById_Last(_, _, _)
MemGetUserById_Last(l, h, user_id) ==
    IF l = <<>> THEN RetNone
    ELSE IF h[l[Len(l)]].user_id = user_id THEN RetUser(l[Len(l)])
    ELSE MemGetUserById_Last(SubSeq(l, 1, Len(l) - 1), h, user_id)

\* get_user_by_id: the first element whose user_id matches, or None
RECURSIVE MemGetUserById(_, _, _)
MemGetUserById(l, h, user_id) ==
    IF l = <<>> THEN RetNone
    ELSE IF h[Head(l)].user_id = user_id THEN RetUser(Head(l))
    ELSE MemGetUserById(Tail(l), h, user_id)

\* Faulty variant of get_all_users: return self._users
MemGetAllUsers_Alias(ls, u) == [lists |-> ls, ret |-> RetList(u)]

\* get_all_users: self._users.copy(), a new list object with the same elements
MemGetAllUsers(ls, u) ==
    LET nl == AllocList(ls)
    IN  [lists |-> ls @@ (nl :> ls[u]), ret |-> RetList(nl)]

\* Faulty variant of delete_user: only the first match is removed (list.remove)
RECURSIVE Comprehension_FirstOnly(_, _, _)
Comprehension_FirstOnly(l, h, user_id) ==
    IF l = <<>> THEN <<>>
    ELSE IF h[Head(l)].user_id # user_id
         THEN <<Head(l)>> \o Comprehension_FirstOnly(Tail(l), h, user_id)
         ELSE Tail(l)

\* delete_user: self._users = [user for user in self._users if user.user_id != user_id]
RECURSIVE Comprehension(_, _, _)
Comprehension(l, h, user_id) ==
    IF l = <<>> THEN <<>>
    ELSE IF h[Head(l)].user_id # user_id
         THEN <<Head(l)>> \o Comprehension(Tail(l), h, user_id)
         ELSE Comprehension(Tail(l), h, user_id)

MemDeleteUser(ls, u, h, user_id) ==
    LET nl == AllocList(ls)
    IN  [lists |-> ls @@ (nl :> Comprehension(ls[u], h, user_id)), users |-> nl]

---------------------------------------------------------------------------
\* SQLiteUserRepository

\* Faulty variant of the INSERT parameters: (user.user_id, user.email, user.name)
RowOfUser_Swapped(u) == <<u.user_id, u.email, u.name>>

\* The parameter tuple of the INSERT statement
RowOfUser(u) == <<u.user_id, u.name, u.email>>

\* Faulty variant of the SELECT column list: SELECT id, email, name
UserOfRow_Swapped(row) == User(row[1], row[3], row[2])

\* User(*row)
UserOfRow(row) == User(row[1], row[2], row[3])

\* Faulty variant of the table: id INTEGER, no PRIMARY KEY
SqlInsert_NoKey(tb, row) == [error |-> "none", rows |-> tb \cup {row}]

\* INSERT INTO users (id, name, email) VALUES (?, ?, ?), id being the primary key
SqlInsert(tb, row) ==
    IF \E r \in tb : r[1] = row[1]
        THEN [error |-> "IntegrityError", rows |-> tb]
        ELSE [error |-> "none", rows |-> tb \cup {row}]

\* Faulty variant of delete_user: DELETE FROM users WHERE id != ?
SqlDelete_Inverted(tb, user_id) ==
    [error |-> "none", rows |-> {r \in tb : r[1] = user_id}]

\* DELETE FROM users WHERE id = ?
SqlDelete(tb, user_id) ==
    [error |-> "none", rows |-> {r \in tb : r[1] # user_id}]

\* with self.connection as conn: commit on normal exit, rollback on an exception
ConnExit(committed, result) ==
    IF result.error = "none" THEN result.rows ELSE committed

\* SELECT id, name, email FROM users WHERE id = ?
SqlSelectById(tb, user_id) == {r \in tb : r[1] = user_id}

\* The orders in which a SELECT without ORDER BY may return a set of rows
Orderings(S) ==
    {s \in [1..Cardinality(S) -> S] : \A i, j \in DOMAIN s : i # j => s[i] # s[j]}

\* [User(*row) for row in rows]: one new object per row, in a new list
RECURSIVE Materialise(_, _)
Materialise(rows, h) ==
    IF rows = <<>> THEN [heap |-> h, refs |-> <<>>]
    ELSE LET r == AllocRef(h, FreshRefs)
             rest == Materialise(Tail(rows), h @@ (r :> UserOfRow(Head(rows))))
         IN  [heap |-> rest.heap, refs |-> <<r>> \o rest.refs]


---------------------------------------------------------------------------
\* The program: a caller and the repository it chose

EmptyFn == [x \in {} |-> 0]
NoRet == [memory |-> RetNone, sqlite |-> RetNone]

\* Whether a record with this id is stored
MemStored(user_id) == \E i \in DOMAIN lists[users] : heap[lists[users][i]].user_id = user_id
SqlStored(user_id) == \E r \in table : r[1] = user_id
Stored(user_id) == (UsesMem /\ MemStored(user_id)) \/ (UsesSql /\ SqlStored(user_id))

\* The number of records of an in-memory list with this id, and the number
\* of stored records with this id (history, recorded with each call)
MemCount(l, h, user_id) == Cardinality({i \in DOMAIN l : h[l[i]].user_id = user_id})
StoredCount(user_id) ==
    IF UsesMem THEN MemCount(lists[users], heap, user_id)
    ELSE Cardinality(SqlSelectById(table, user_id))

\* InMemoryUserRepository.__init__, SQLiteUserRepository.__init__ and
\* _create_table: an empty list, an empty table
InitStore ==
    /\ heap = EmptyFn
    /\ users = 1
    /\ lists = (1 :> <<>>)
    /\ table = {}
    /\ ret = NoRet
    /\ lastOp = NoOp
    /\ prevOp = NoOp
    /\ addedMem = {}
    /\ addedSql = {}
    /\ clock = 0
    /\ everDeleted = FALSE

\* repo_choice
Init == backend \in {"memory", "sqlite"} /\ InitStore

\* List references are opaque (the program never compares or prints them), so
\* the live lists are renamed at the end of a step: self._users to 1, the
\* returned lists to 2 and 3.  Aliases are kept: a returned list that is
\* self._users is renamed with it.
Renaming(u, rt) ==
    LET m == IF rt.memory.kind = "list" /\ rt.memory.ref # u THEN {rt.memory.ref} ELSE {}
        q == IF rt.sqlite.kind = "list" /\ rt.sqlite.ref \notin ({u} \cup m)
             THEN {rt.sqlite.ref} ELSE {}
    IN  [l \in {u} \cup m \cup q |->
            IF l = u THEN 1 ELSE IF l \in m \/ m = {} THEN 2 ELSE 3]

RenameRet(v, f) == IF v.kind = "list" THEN RetList(f[v.ref]) ELSE v

\* The end of a step: the objects and lists nothing references any more are
\* gone, and the operation is recorded.
Finish(h, ls, u, tb, rt, op) ==
    LET f == Renaming(u, rt)
        live == Restrict(ls, LiveLists(u, rt))
    IN  /\ heap' = Restrict(h, LiveObjs(ls, u, rt))
        /\ lists' = [l \in {f[x] : x \in DOMAIN live} |->
                        live[CHOOSE x \in DOMAIN live : f[x] = l]]
        /\ users' = f[u]
        /\ table' = tb
        /\ ret' = [memory |-> RenameRet(rt.memory, f), sqlite |-> RenameRet(rt.sqlite, f)]
        /\ prevOp' = IF op.op = "get_user_by_id" THEN lastOp ELSE NoOp
        /\ lastOp' = op
        /\ backend' = backend

\* The caller assigns to an attribute of an object it has just stored or
\* has just been handed, or of an object the in-memory repository holds.
SetAttr(r, f, v) ==
    /\ r \in DOMAIN heap
    /\ lastOp.op \in {"add_user", "get_user_by_id", "get_all_users"}
    /\ \/ UsesMem /\ r \in Range(lists[users])
       \/ lastOp.op = "add_user" /\ lastOp.arg = r
       \/ r \in RetObjs(lists, ret)
    /\ heap[r][f] # v
    /\ Finish([heap EXCEPT ![r][f] = v], lists, users, table, ret,
              Op("setattr", r, "none", 0))
    /\ UNCHANGED <<addedMem, addedSql, clock, everDeleted>>

\* Faulty variant of add_user: the in-memory repository stores a copy of the object,
\* self._users.append(User(user.user_id, user.name, user.email))
AddCall_Copy(h, r) ==
    LET c == AllocRef(h, Refs)
        res == SqlInsert(table, RowOfUser(h[r]))
        ok == ~UsesSql \/ res.error = "none"
        ls == IF UsesMem THEN [lists EXCEPT ![users] = MemAddUser(@, c)] ELSE lists
        tb == IF UsesSql THEN ConnExit(table, res) ELSE table
    IN  /\ Finish(IF ok THEN h @@ (c :> h[r]) ELSE heap, ls, users, tb, NoRet,
                  Op("add_user", IF ok THEN r ELSE 0,
                     IF UsesSql THEN res.error ELSE "none", StoredCount(h[r].user_id)))
        /\ addedMem' = IF UsesMem THEN addedMem \cup {[t |-> clock + 1, ref |-> r]}
                       ELSE addedMem
        /\ addedSql' = IF UsesSql /\ ok
                       THEN addedSql \cup {[t |-> clock + 1, user |-> h[r]]}
                       ELSE addedSql
        /\ clock' = IF ok THEN clock + 1 ELSE clock
        /\ UNCHANGED everDeleted

\* add_user(user), user being object r of heap h.  An object whose insert
\* raised is not kept by the caller.
AddCall(h, r) ==
    LET res == SqlInsert(table, RowOfUser(h[r]))
        ok == ~UsesSql \/ res.error = "none"
        ls == IF UsesMem THEN [lists EXCEPT ![users] = MemAddUser(@, r)] ELSE lists
        tb == IF UsesSql THEN ConnExit(table, res) ELSE table
    IN  /\ Finish(IF ok THEN h ELSE heap, ls, users, tb, NoRet,
                  Op("add_user", IF ok THEN r ELSE 0,
                     IF UsesSql THEN res.error ELSE "none", StoredCount(h[r].user_id)))
        /\ addedMem' = IF UsesMem THEN addedMem \cup {[t |-> clock + 1, ref |-> r]}
                       ELSE addedMem
        /\ addedSql' = IF UsesSql /\ ok
                       THEN addedSql \cup {[t |-> clock + 1, user |-> h[r]]}
                       ELSE addedSql
        /\ clock' = IF ok THEN clock + 1 ELSE clock
        /\ UNCHANGED everDeleted

\* repository.add_user(User(user_id, name, email))
AddNewUser(user_id, name, email) ==
    /\ clock < MaxAdds
    /\ CallerRefs \ DOMAIN heap # {}
    /\ LET r == AllocRef(heap, CallerRefs)
       IN  AddCall(heap @@ (r :> User(user_id, name, email)), r)

\* repository.add_user(user), for an object the caller stored before
AddUser(r) ==
    /\ clock < MaxAdds
    /\ r \in DOMAIN heap \cap CallerRefs
    /\ AddCall(heap, r)

\* repository.get_user_by_id(user_id)
GetUserById(user_id) ==
    /\ LET h0 == Restrict(heap, LiveObjs(lists, users, NoRet))
           rows == SqlSelectById(table, user_id)
           r == AllocRef(h0, FreshRefs)
           found == UsesSql /\ rows # {}
           h1 == IF found THEN h0 @@ (r :> UserOfRow(CHOOSE row \in rows : TRUE)) ELSE h0
           rt == [memory |-> IF UsesMem THEN MemGetUserById(lists[users], heap, user_id)
                             ELSE RetNone,
                  sqlite |-> IF found THEN RetUser(r) ELSE RetNone]
       IN  Finish(h1, lists, users, table, rt,
                  Op("get_user_by_id", user_id, "none", StoredCount(user_id)))
    /\ UNCHANGED <<addedMem, addedSql, clock, everDeleted>>

\* repository.get_all_users()
GetAllUsers ==
    /\ \E rows \in Orderings(table) :
        LET h0 == Restrict(heap, LiveObjs(lists, users, NoRet))
            ls0 == Restrict(lists, LiveLists(users, NoRet))
            mem == MemGetAllUsers(ls0, users)
            ls1 == IF UsesMem THEN mem.lists ELSE ls0
            m == Materialise(rows, h0)
            nl == AllocList(ls1)
            ls2 == IF UsesSql THEN ls1 @@ (nl :> m.refs) ELSE ls1
            rt == [memory |-> IF UsesMem THEN mem.ret ELSE RetNone,
                   sqlite |-> IF UsesSql THEN RetList(nl) ELSE RetNone]
        IN  Finish(IF UsesSql THEN m.heap ELSE h0, ls2, users, table, rt,
                   Op("get_all_users", 0, "none", 0))
    /\ UNCHANGED <<addedMem, addedSql, clock, everDeleted>>

\* repository.delete_user(user_id)
DeleteUser(user_id) ==
    /\ LET ls0 == Restrict(lists, LiveLists(users, ret))
           mem == MemDeleteUser(ls0, users, heap, user_id)
           tb == IF UsesSql THEN ConnExit(table, SqlDelete(table, user_id)) ELSE table
       IN  Finish(heap,
                  IF UsesMem THEN mem.lists ELSE lists,
                  IF UsesMem THEN mem.users ELSE users,
                  tb, NoRet,
                  Op("delete_user", user_id, "none", StoredCount(user_id)))
    /\ addedMem' = IF UsesMem THEN {e \in addedMem : heap[e.ref].user_id # user_id}
                   ELSE addedMem
    /\ addedSql' = IF UsesSql THEN {e \in addedSql : e.user.user_id # user_id} ELSE addedSql
    /\ everDeleted' = TRUE
    /\ UNCHANGED clock

\* The caller mutates the list a get_all_users call has just handed it.
ListAppend(b, r) ==
    /\ lastOp.op = "get_all_users"
    /\ ret[b].kind = "list"
    /\ r \in DOMAIN heap
    /\ Finish(heap, [lists EXCEPT ![ret[b].ref] = Append(@, r)], users, table, ret,
              Op("list_append", 0, "none", 0))
    /\ UNCHANGED <<addedMem, addedSql, clock, everDeleted>>

ListPop(b) ==
    /\ lastOp.op = "get_all_users"
    /\ ret[b].kind = "list"
    /\ lists[ret[b].ref] # <<>>
    /\ Finish(heap, [lists EXCEPT ![ret[b].ref] = SubSeq(@, 1, Len(@) - 1)],
              users, table, ret, Op("list_pop", 0, "none", 0))
    /\ UNCHANGED <<addedMem, addedSql, clock, everDeleted>>

ListReverse(b) ==
    /\ lastOp.op = "get_all_users"
    /\ ret[b].kind = "list"
    /\ LET l == lists[ret[b].ref]
           rev == [i \in DOMAIN l |-> l[Len(l) + 1 - i]]
       IN  /\ rev # l
           /\ Finish(heap, [lists EXCEPT ![ret[b].ref] = rev], users, table, ret,
                     Op("list_reverse", 0, "none", 0))
    /\ UNCHANGED <<addedMem, addedSql, clock, everDeleted>>

FieldValues(f) == IF f = "name" THEN Names ELSE Emails

Backends == {"memory", "sqlite"}

Next ==
    \/ \E i \in UserIds, p \in People : AddNewUser(i, p[1], p[2])
    \/ \E r \in CallerRefs : AddUser(r)
    \/ \E i \in UserIds : GetUserById(i)
    \/ GetAllUsers
    \/ \E i \in UserIds : DeleteUser(i)
    \/ \E b \in Backends, r \in Refs : ListAppend(b, r)
    \/ \E b \in Backends : ListPop(b)
    \/ \E b \in Backends : ListReverse(b)

Spec == Init /\ [][Next]_vars

\* The same program with a caller that assigns to attributes of the
\* entities instead of touching the returned lists.
NextMut ==
    \/ \E i \in UserIds, p \in People : clock < MaxMutAdds /\ AddNewUser(i, p[1], p[2])
    \/ \E r \in CallerRefs : clock < MaxMutAdds /\ AddUser(r)
    \/ \E i \in UserIds : GetUserById(i)
    \/ GetAllUsers
    \/ \E i \in UserIds : DeleteUser(i)
    \/ \E r \in Refs, f \in Fields : \E v \in FieldValues(f) : SetAttr(r, f, v)

SpecMut == Init /\ [][NextMut]_vars

\* The same calls made on an InMemoryUserRepository and on a
\* SQLiteUserRepository side by side, add_user only with an id not stored.
InitPair == backend = "both" /\ InitStore

NextPair ==
    \/ \E i \in UserIds, p \in People : ~Stored(i) /\ AddNewUser(i, p[1], p[2])
    \/ \E r \in CallerRefs :
        r \in DOMAIN heap /\ ~Stored(heap[r].user_id) /\ AddUser(r)
    \/ \E i \in UserIds : GetUserById(i)
    \/ GetAllUsers
    \/ \E i \in UserIds : DeleteUser(i)

SpecPair == InitPair /\ [][NextPair]_vars

---------------------------------------------------------------------------
\* What the claims speak of

\* The value the last repository call returned (one backend runs)
Result == ret[backend]
ResultIsUser == Result.kind = "user"
ResultList == lists[Result.ref]

\* The fields of the records get_all_users of the in-memory repository
\* would return, in order
MemView == [i \in DOMAIN lists[users] |-> heap[lists[users][i]]]

\* The position of an add_user call among those a delete_user has not undone
Rank(e, added) == Cardinality({d \in added : d.t <= e.t})

\* add_user(e) succeeded and get_user_by_id(e.user_id) was called right after
AddThenGet ==
    /\ lastOp.op = "get_user_by_id"
    /\ prevOp.op = "add_user"
    /\ prevOp.raised = "none"
    /\ heap[prevOp.arg].user_id = lastOp.arg

\* C1 as stated: for both backends, a successful add_user(e) immediately
\* followed by get_user_by_id(e.user_id) returns a record whose id, name and
\* email equal those of e.
C1_AddThenGetReturnsE ==
    AddThenGet => ResultIsUser /\ heap[Result.ref] = heap[prevOp.arg]

\* C1 amended: a successful add_user(e) immediately followed by
\* get_user_by_id(e.user_id) returns a record with the id of e; its name and
\* email are those of e when no record with that id was stored before the
\* add; when one was (in-memory backend only), the record returned is one
\* stored before the add.
C1_AddThenGet ==
    AddThenGet =>
        /\ ResultIsUser
        /\ heap[Result.ref].user_id = heap[prevOp.arg].user_id
        /\ prevOp.hit = 0 => heap[Result.ref] = heap[prevOp.arg]
        /\ prevOp.hit > 0 =>
            /\ backend = "memory"
            /\ \E e \in addedMem : e.ref = Result.ref /\ e.t < clock

C1_Witness ==
    /\ AddThenGet
    /\ backend = "sqlite"
    /\ prevOp.hit = 0
    /\ Cardinality(table) = 2

\* C2: for both backends, delete_user(id) leaves no record with that id
\* stored, and get_user_by_id(id) called right after it returns None.
C2_DeleteThenGet ==
    /\ lastOp.op = "delete_user" => ~Stored(lastOp.arg)
    /\ (lastOp.op = "get_user_by_id" /\ prevOp.op = "delete_user"
            /\ prevOp.arg = lastOp.arg)
        => Result = RetNone

C2_Witness ==
    /\ lastOp.op = "get_user_by_id"
    /\ prevOp.op = "delete_user"
    /\ prevOp.arg = lastOp.arg
    /\ prevOp.hit = 2
    /\ backend = "memory"
    /\ lists[users] # <<>>

\* C3: for both backends, delete_user(id) with an id that is not stored does
\* not raise and leaves the store unchanged: get_all_users returns the same
\* records before and after.
C3_DeleteAbsent ==
    [][(lastOp'.op = "delete_user" /\ lastOp'.hit = 0) =>
        /\ lastOp'.raised = "none"
        /\ MemView' = MemView
        /\ lists'[users'] = lists[users]
        /\ table' = table]_vars

C3_Witness ==
    /\ lastOp.op = "delete_user"
    /\ lastOp.hit = 0
    /\ everDeleted
    /\ \/ backend = "sqlite" /\ table # {}
       \/ backend = "memory" /\ lists[users] # <<>>

\* The records added so far have pairwise distinct ids.
DistinctIdsAdded ==
    /\ \A d, e \in addedMem : d # e => heap[d.ref].user_id # heap[e.ref].user_id
    /\ \A d, e \in addedSql : d # e => d.user.user_id # e.user.user_id

\* C4: for both backends, from an empty store and with no delete_user,
\* get_all_users after N add_user calls with pairwise distinct ids returns
\* exactly N records, each added record exactly once.
C4_GetAllAfterDistinctAdds ==
    (lastOp.op = "get_all_users" /\ ~everDeleted /\ DistinctIdsAdded) =>
        /\ Len(ResultList) = clock
        /\ backend = "memory" => \A e \in addedMem :
            Cardinality({i \in DOMAIN ResultList : ResultList[i] = e.ref}) = 1
        /\ backend = "sqlite" => \A e \in addedSql :
            Cardinality({i \in DOMAIN ResultList : heap[ResultList[i]] = e.user}) = 1

C4_Witness ==
    /\ lastOp.op = "get_all_users"
    /\ ~everDeleted
    /\ DistinctIdsAdded
    /\ clock = 2
    /\ backend = "sqlite"

\* C5: add_user with an id already stored: the in-memory repository accepts
\* it and then holds one more record with that id, at least two; the SQLite
\* repository raises a uniqueness violation and its table is as before the
\* call; no two rows of the table ever share an id.
C5_DuplicateAdd ==
    [][/\ (lastOp'.op = "add_user" /\ lastOp'.hit > 0) =>
            IF backend = "memory"
            THEN /\ lastOp'.raised = "none"
                 /\ LET id == heap'[lastOp'.arg].user_id
                    IN  /\ MemCount(lists'[users'], heap', id)
                            = MemCount(lists[users], heap, id) + 1
                        /\ MemCount(lists'[users'], heap', id) = lastOp'.hit + 1
                        /\ MemCount(lists'[users'], heap', id) >= 2
            ELSE /\ lastOp'.raised = "IntegrityError"
                 /\ table' = table
       /\ (lastOp'.op = "add_user" /\ lastOp'.hit = 0) => lastOp'.raised = "none"
       /\ \A r, q \in table' : r[1] = q[1] => r = q]_vars

C5_Witness ==
    /\ lastOp.op = "add_user"
    /\ lastOp.hit = 1
    /\ lastOp.raised = "IntegrityError"
    /\ backend = "sqlite"

\* What C6 says of the value get_user_by_id has just returned
C6_Result ==
    LET id == lastOp.arg
    IN  /\ lastOp.raised = "none"
        /\ Result = RetNone <=> ~Stored(id)
        /\ Stored(id) =>
            /\ ResultIsUser
            /\ heap[Result.ref].user_id = id
            /\ backend = "memory" =>
                /\ Result.ref \in Range(lists[users])
                /\ \A e \in addedMem : heap[e.ref].user_id = id =>
                    \E d \in addedMem : d.ref = Result.ref /\ d.t <= e.t
            /\ backend = "sqlite" => RowOfUser(heap[Result.ref]) \in table

\* C6: get_user_by_id(id) never raises; it returns None when no stored record
\* has that id and otherwise the first stored record with it (in memory, the
\* earliest added of those still stored); the call does not change the store.
C6_GetUserById ==
    [][lastOp'.op = "get_user_by_id" =>
        /\ C6_Result'
        /\ MemView' = MemView
        /\ lists'[users'] = lists[users]
        /\ table' = table]_vars

C6_Witness ==
    /\ lastOp.op = "get_user_by_id"
    /\ backend = "memory"
    /\ \E i, j \in DOMAIN lists[users] :
        /\ i < j
        /\ lists[users][i] # lists[users][j]
        /\ heap[lists[users][i]].user_id = lastOp.arg
        /\ heap[lists[users][j]].user_id = lastOp.arg

ListOps == {"list_append", "list_pop", "list_reverse"}

\* C7: the list InMemoryUserRepository.get_all_users returns is a copy: it
\* is another list object than self._users with the same elements, and
\* appending to it, removing from it or reordering it leaves self._users, and
\* so what get_all_users and get_user_by_id return later, unchanged.
C7_DefensiveCopy ==
    [][backend = "memory" =>
        /\ lastOp'.op = "get_all_users" =>
            /\ ret'.memory.ref # users'
            /\ lists'[ret'.memory.ref] = lists'[users']
        /\ lastOp'.op \in ListOps =>
            /\ lists'[users'] = lists[users]
            /\ MemView' = MemView
            /\ \A id \in UserIds :
                MemGetUserById(lists'[users'], heap', id)
                    = MemGetUserById(lists[users], heap, id)]_vars

C7_Witness ==
    /\ backend = "memory"
    /\ lastOp.op \in ListOps
    /\ lists[users] # <<>>
    /\ lists[ret.memory.ref] # lists[users]

\* C8: InMemoryUserRepository.get_all_users returns exactly the records
\* added and not deleted since, in the order of their add_user calls.
C8_InsertionOrder ==
    (backend = "memory" /\ lastOp.op = "get_all_users") =>
        /\ Len(ResultList) = Cardinality(addedMem)
        /\ \A e \in addedMem : ResultList[Rank(e, addedMem)] = e.ref

C8_Witness ==
    /\ backend = "memory"
    /\ lastOp.op = "get_all_users"
    /\ everDeleted
    /\ Len(ResultList) = 2
    /\ \E e \in addedMem : e.t = 1
    /\ \E e \in addedMem : e.t = 3

\* The records the SQLite reads would build, by id
SqlView == {UserOfRow(row) : row \in table}

\* C9: assigning to a field of an entity after add_user changes what the
\* in-memory repository returns for it from then on, the caller's object and
\* the objects get_user_by_id and get_all_users return being the stored
\* object itself; it never changes what the SQLite repository returns.
C9_MutationAfterStorage ==
    [][lastOp'.op = "setattr" =>
        LET r == lastOp'.arg
        IN  /\ (backend = "memory" /\ \E e \in addedMem : e.ref = r) =>
                /\ MemView' # MemView
                /\ \A i \in DOMAIN lists[users] :
                    heap[lists[users][i]] # heap'[lists[users][i]]
                        <=> lists[users][i] = r
                /\ \A i \in DOMAIN MemView' :
                    lists'[users'][i] = r => MemView'[i] = heap'[r]
            /\ backend = "memory" =>
                \A b \in Backends : ret[b].kind = "user" =>
                    ret[b].ref \in Range(lists[users])
            /\ backend = "sqlite" =>
                /\ table' = table
                /\ SqlView' = SqlView]_vars

C9_Witness ==
    /\ lastOp.op = "setattr"
    /\ backend = "memory"
    /\ \E e \in addedMem : e.ref = lastOp.arg
    /\ Len(lists[users]) = 2

\* The records a returned list holds, as a bag of their fields
Contents(l) == [u \in {heap[l[i]] : i \in DOMAIN l} |->
                    Cardinality({i \in DOMAIN l : heap[l[i]] = u})]

\* C10: on histories where add_user is only called with an id not stored and
\* no entity is mutated, the two backends answer alike: get_user_by_id
\* returns records with equal fields (or None in both), get_all_users the
\* same records, order aside.
C10_BackendsAgree ==
    backend = "both" =>
        /\ lastOp.op = "get_user_by_id" =>
            /\ ret.memory.kind = ret.sqlite.kind
            /\ ret.memory.kind = "user" =>
                heap[ret.memory.ref] = heap[ret.sqlite.ref]
        /\ lastOp.op = "get_all_users" =>
            Contents(lists[ret.memory.ref]) = Contents(lists[ret.sqlite.ref])

C10_Witness ==
    /\ backend = "both"
    /\ lastOp.op = "get_all_users"
    /\ everDeleted
    /\ Len(lists[ret.memory.ref]) = 2

============================================================================
